---- MODULE Spec2Model ----
(***************************************************************************)
(* Transfer / ledger engine of insecure-banking:                           *)
(*   apps/transfers/views.py     TransferView (GET/POST /transfer,         *)
(*                               POST /transfer/confirm)                   *)
(*   apps/transfers/services.py  TransferService.createNewTransfer         *)
(*   apps/banking/services.py    CashAccountService, CreditAccountService, *)
(*                               ActivityService                           *)
(*   apps/transfers/models.py    Transfer, ModelSerializationMixin         *)
(*                                                                         *)
(* Numbers (Python floats in the source) are fixed-point integers counting *)
(* thousandths: 100.00 is 100000, the fee rate 2.5 is 2500.  The input     *)
(* sets below contain no value whose rounding to 2 decimals is a tie, so   *)
(* round2 agrees with Python's round(x, 2) on every value the model meets. *)
(***************************************************************************)
EXTENDS Integers, Sequences, FiniteSets, TLC

(***************************************************************************)
(* Bounds                                                                  *)
(***************************************************************************)
\* createNewTransfer is invoked only while web_transfer holds fewer than MaxTransfers rows
MaxTransfers == 2

(***************************************************************************)
(* Program constants                                                       *)
(***************************************************************************)
\* Transfer.fee = models.FloatField(default=20)
DefaultFee == 20000
\* desc = description if len(description) <= 12 else description[0:12]
DescLimit == 12
\* number of database statements issued by createNewTransfer
NumStatements == 10
\* Python None in a numeric field (FloatField without default)
NoneNum == -2000000000
\* Python None in a non-numeric field (id, date)
None == "None"

(***************************************************************************)
(* Numerics                                                                *)
(***************************************************************************)
\* n / d rounded to the nearest integer, ties to even (d > 0)
RoundHalfEven(n, d) ==
    LET q == n \div d
        r == n % d
    IN  IF 2 * r < d THEN q
        ELSE IF 2 * r > d THEN q + 1
        ELSE IF q % 2 = 0 THEN q ELSE q + 1

\* Python round(x, 2) of the number n / d thousandths; result in thousandths
round2(n, d) == 10 * RoundHalfEven(n, 10 * d)

(***************************************************************************)
(* Fixtures: sessions, users, accounts, form inputs                        *)
(***************************************************************************)
Sessions == {"s1", "s2"}

\* two sessions of one user (two clients logged in as user1)
TwinSessions == {"s1", "s3"}

\* every session the server holds
AllSessions == Sessions \cup TwinSessions

\* request.user of a session (authenticated principal)
UserOf(s) == IF s = "s2" THEN "user2" ELSE "user1"

\* values of the accountType cookie a client may send ("absent": no cookie)
CookieVals == {"absent", "Personal", "Business"}

Today == "today"

\* descriptions are sequences of characters
ShortDesc == <<"r", "e", "n", "t">>
LongDesc == <<"M", "o", "n", "t", "h", "l", "y", " ", "r", "e", "n", "t", " ", "p", "a", "y">>

\* web_cashaccount rows (never written by the engine)
InitCash ==
    << [id |-> 1, number |-> "1111111111", username |-> "user1", availableBalance |-> 1000000],
       [id |-> 2, number |-> "2222222222", username |-> "user2", availableBalance |-> 500000],
       [id |-> 3, number |-> "3333333333", username |-> "user1", availableBalance |-> 50004] >>

\* web_creditaccount rows (the balance sink); cash account 3 has none
InitCredit ==
    << [cashAccountId |-> 1, availableBalance |-> 800000],
       [cashAccountId |-> 2, availableBalance |-> 300000] >>

\* POST /transfer bodies: fromAccount, toAccount, description, amount, fee (rate in percent)
Forms ==
    { [fromAccount |-> "1111111111", toAccount |-> "2222222222", description |-> ShortDesc,
       amount |-> 100000, fee |-> 20000],
      [fromAccount |-> "1111111111", toAccount |-> "2222222222", description |-> ShortDesc,
       amount |-> 0, fee |-> 20000],
      [fromAccount |-> "3333333333", toAccount |-> "1111111111", description |-> LongDesc,
       amount |-> 100004, fee |-> 2500],
      [fromAccount |-> "2222222222", toAccount |-> "9999999999", description |-> ShortDesc,
       amount |-> 33334, fee |-> 2500] }

Actions == {"confirm", "cancel"}

\* database faults injected into createNewTransfer: 0 none, k > 0 the k-th statement raises
\* (1 the transfer insert, 9 the destination balance write, 10 the last activity insert);
\* statements 2 and 7 raise by themselves when an account number does not resolve
Faults == {0, 1, 9, NumStatements}

(***************************************************************************)
(* Transfer model and its serialization                                    *)
(***************************************************************************)
FieldNames == <<"id", "fromAccount", "toAccount", "description", "amount", "fee", "username", "date">>

\* Transfer(): a fresh model instance with the field defaults
Transfer ==
    [id |-> None, fromAccount |-> "", toAccount |-> "", description |-> <<>>,
     amount |-> NoneNum, fee |-> DefaultFee, username |-> "", date |-> None]

\* TransferForm(request.POST).instance after is_valid(): the five form fields bound
TransferForm(post) ==
    [Transfer EXCEPT !.fromAccount = post.fromAccount, !.toAccount = post.toAccount,
                     !.description = post.description, !.amount = post.amount,
                     !.fee = post.fee]

\* as_dict + json.dumps: the (field name, value) pairs in _meta.fields order
as_dict(t) == [i \in 1..Len(FieldNames) |-> <<FieldNames[i], t[FieldNames[i]]>>]

RECURSIVE SetAttrs(_, _, _)
SetAttrs(t, pairs, i) ==
    IF i > Len(pairs) THEN t
    ELSE SetAttrs([t EXCEPT ![pairs[i][1]] = pairs[i][2]], pairs, i + 1)

\* variant: the fee is not restored, the instance keeps its default
from_dict_noFee(t, values) == [SetAttrs(t, values, 1) EXCEPT !.fee = t.fee]

\* json.loads + from_dict: setattr(self, key, value) for every pair
from_dict(t, values) == SetAttrs(t, values, 1)

(***************************************************************************)
(* Persistence services (raw SQL over one database connection).            *)
(* A database value db is a record of the tables the engine writes:        *)
(*   web_transfer, web_transaction, web_creditaccount, and updateCalls,    *)
(*   the list of update_credit_account calls that took effect.             *)
(***************************************************************************)
\* variant: the newest row is replaced once the table holds one
insert_transfer_replace(db, transfer) ==
    LET row == [fromAccount |-> transfer.fromAccount, toAccount |-> transfer.toAccount,
                description |-> transfer.description, amount |-> transfer.amount,
                fee |-> transfer.fee, username |-> transfer.username, date |-> transfer.date]
    IN  IF db.web_transfer = <<>> THEN [db EXCEPT !.web_transfer = <<row>>]
        ELSE [db EXCEPT !.web_transfer[Len(db.web_transfer)] = row]

\* TransferService.insert_transfer: INSERT INTO web_transfer
insert_transfer(db, transfer) ==
    [db EXCEPT !.web_transfer = Append(@,
        [fromAccount |-> transfer.fromAccount, toAccount |-> transfer.toAccount,
         description |-> transfer.description, amount |-> transfer.amount,
         fee |-> transfer.fee, username |-> transfer.username, date |-> transfer.date])]

\* rows of web_cashaccount WHERE number = account
CashRows(cash, account) == {i \in 1..Len(cash) : cash[i].number = account}

\* cursor.fetchone() returned a row (row[0] raises TypeError on None)
Resolves(cash, account) == CashRows(cash, account) # {}

\* CashAccountService.get_from_account_actual_amount
get_from_account_actual_amount(cash, account) ==
    cash[CHOOSE i \in CashRows(cash, account) : \A j \in CashRows(cash, account) : i <= j].availableBalance

\* CashAccountService.get_id_from_number
get_id_from_number(cash, account) ==
    cash[CHOOSE i \in CashRows(cash, account) : \A j \in CashRows(cash, account) : i <= j].id

\* CreditAccountService.update_credit_account: UPDATE web_creditaccount SET availableBalance
update_credit_account(db, cashAccountId, round) ==
    [db EXCEPT
        !.web_creditaccount = [i \in 1..Len(@) |->
            IF @[i].cashAccountId = cashAccountId
            THEN [@[i] EXCEPT !.availableBalance = round] ELSE @[i]],
        !.updateCalls = Append(@, <<cashAccountId, round>>)]

\* variant: no row is written for the fee
insert_new_activity_skipFee(db, date, description, number, amount, avaiable_balance) ==
    IF description = <<"TRANSFER FEE">> THEN db
    ELSE [db EXCEPT !.web_transaction = Append(@,
            [date |-> date, description |-> description, number |-> number,
             amount |-> amount, availableBalance |-> avaiable_balance])]

\* ActivityService.insert_new_activity: INSERT INTO web_transaction
insert_new_activity(db, date, description, number, amount, avaiable_balance) ==
    [db EXCEPT !.web_transaction = Append(@,
        [date |-> date, description |-> description, number |-> number,
         amount |-> amount, availableBalance |-> avaiable_balance])]

\* variant: one character fewer is kept
Truncate_short(description) ==
    IF Len(description) <= DescLimit THEN description ELSE SubSeq(description, 1, DescLimit - 1)

\* description if len(description) <= 12 else description[0:12]
Truncate(description) ==
    IF Len(description) <= DescLimit THEN description ELSE SubSeq(description, 1, DescLimit)

(***************************************************************************)
(* TransferService.createNewTransfer, statement by statement.              *)
(* fault = k > 0: the database raises on the k-th statement; a lookup      *)
(* whose account number matches no row raises as well.  The result is      *)
(* [ok, failStep, db]: db is the database as the body left it.             *)
(***************************************************************************)
\* variant: the fee is not deducted from the source balance
amount_total_noFee(actual_amount, transfer) == actual_amount - transfer.amount

\* amount_total = actual_amount - (transfer.amount + transfer.fee)
amount_total(actual_amount, transfer) == actual_amount - (transfer.amount + transfer.fee)

\* amount = actual_amount - transfer.amount
amount_after(actual_amount, transfer) == actual_amount - transfer.amount

\* variant: the fee row repeats the snapshot of the amount row
amount_with_fees_noFee(amount, transfer) == amount

\* amount_with_fees = amount - transfer.fee
amount_with_fees(amount, transfer) == amount - transfer.fee

\* variant: the destination is credited net of the fee
to_amount_total_net(to_actual_amount, transfer) ==
    to_actual_amount + transfer.amount - transfer.fee

\* to_amount_total = to_actual_amount + transfer.amount
to_amount_total(to_actual_amount, transfer) == to_actual_amount + transfer.amount

createNewTransferBody(db, cash, transfer, fault) ==
    LET d1 == insert_transfer(db, transfer)
        actual_amount == get_from_account_actual_amount(cash, transfer.fromAccount)
        total == amount_total(actual_amount, transfer)
        amount == amount_after(actual_amount, transfer)
        with_fees == amount_with_fees(amount, transfer)
        cash_account_id == get_id_from_number(cash, transfer.fromAccount)
        d4 == update_credit_account(d1, cash_account_id, round2(total, 1))
        desc == Truncate(transfer.description)
        d5 == insert_new_activity(d4, transfer.date, <<"TRANSFER: ">> \o desc,
                                  transfer.fromAccount, 0 - round2(transfer.amount, 1),
                                  round2(amount, 1))
        d6 == insert_new_activity(d5, transfer.date, <<"TRANSFER FEE">>,
                                  transfer.fromAccount, 0 - round2(transfer.fee, 1),
                                  round2(with_fees, 1))
        to_cash_account_id == get_id_from_number(cash, transfer.toAccount)
        to_actual_amount == get_from_account_actual_amount(cash, transfer.toAccount)
        to_total == to_amount_total(to_actual_amount, transfer)
        d9 == update_credit_account(d6, to_cash_account_id, round2(to_total, 1))
        d10 == insert_new_activity(d9, transfer.date, <<"TRANSFER: $">> \o desc,
                                   transfer.toAccount, round2(transfer.amount, 1),
                                   round2(to_total, 1))
        Fail(k, at) == [ok |-> FALSE, failStep |-> k, db |-> at]
    IN  IF fault = 1 THEN Fail(1, db)
        ELSE IF fault = 2 \/ fault = 3 \/ ~Resolves(cash, transfer.fromAccount)
             THEN Fail(IF fault = 3 /\ Resolves(cash, transfer.fromAccount) THEN 3 ELSE 2, d1)
        ELSE IF fault = 4 THEN Fail(4, d1)
        ELSE IF fault = 5 THEN Fail(5, d4)
        ELSE IF fault = 6 THEN Fail(6, d5)
        ELSE IF fault = 7 \/ fault = 8 \/ ~Resolves(cash, transfer.toAccount)
             THEN Fail(IF fault = 8 /\ Resolves(cash, transfer.toAccount) THEN 8 ELSE 7, d6)
        ELSE IF fault = 9 THEN Fail(9, d6)
        ELSE IF fault = 10 THEN Fail(10, d9)
        ELSE [ok |-> TRUE, failStep |-> 0, db |-> d10]

\* variant: no enclosing transaction, the writes made before a failure stay
createNewTransfer_noRollback(db, cash, transfer, fault) ==
    createNewTransferBody(db, cash, transfer, fault)

\* variant: the balances are read from the balance sink, as earlier transfers left it
createNewTransfer_readSink(db, cash, transfer, fault) ==
    LET sunk(id) == {i \in 1..Len(db.web_creditaccount) :
                        db.web_creditaccount[i].cashAccountId = id}
        current == [i \in 1..Len(cash) |->
                      IF sunk(cash[i].id) = {} THEN cash[i]
                      ELSE [cash[i] EXCEPT !.availableBalance =
                              db.web_creditaccount[CHOOSE j \in sunk(cash[i].id) : TRUE]
                                  .availableBalance]]
        r == createNewTransferBody(db, current, transfer, fault)
    IN  IF r.ok THEN r ELSE [r EXCEPT !.db = db]

\* variant: the failure is caught and the call returns normally, nothing written
createNewTransfer_swallow(db, cash, transfer, fault) ==
    [ok |-> TRUE, failStep |-> 0,
     db |-> LET r == createNewTransferBody(db, cash, transfer, fault)
            IN  IF r.ok THEN r.db ELSE db]

\* @transaction.atomic: commit the body's writes, or roll all of them back
createNewTransfer(db, cash, transfer, fault) ==
    LET r == createNewTransferBody(db, cash, transfer, fault)
    IN  IF r.ok THEN r ELSE [r EXCEPT !.db = db]

(***************************************************************************)
(* createNewTransfer as a request thread executes it: one database         *)
(* statement at a time, the values read kept in local variables.           *)
(***************************************************************************)
\* request threads that may be inside createNewTransfer at the same time
Workers == {"w1", "w2"}

\* the session whose request a thread serves
SessionOf(w) == IF w = "w1" THEN "s1" ELSE "s2"

\* the local variables of createNewTransfer before their assignment
NoLocals ==
    [actual_amount |-> NoneNum, cash_account_id |-> NoneNum,
     to_cash_account_id |-> NoneNum, to_actual_amount |-> NoneNum]

\* variant: the destination side is handled before the source side
StatementOrder_destFirst == <<1, 7, 8, 9, 10, 2, 3, 4, 5, 6>>

\* statements of createNewTransfer in program order
StatementOrder == <<1, 2, 3, 4, 5, 6, 7, 8, 9, 10>>

\* the effect of the statement numbered n on the database and on the locals
StatementEffect(n, db, cash, transfer, loc) ==
    LET desc == Truncate(transfer.description)
        W(d) == [db |-> d, loc |-> loc]
        R(l) == [db |-> db, loc |-> l]
    IN  CASE n = 1 -> W(insert_transfer(db, transfer))
          [] n = 2 -> R([loc EXCEPT !.actual_amount =
                            get_from_account_actual_amount(cash, transfer.fromAccount)])
          [] n = 3 -> R([loc EXCEPT !.cash_account_id =
                            get_id_from_number(cash, transfer.fromAccount)])
          [] n = 4 -> W(update_credit_account(db, loc.cash_account_id,
                            round2(amount_total(loc.actual_amount, transfer), 1)))
          [] n = 5 -> W(insert_new_activity(db, transfer.date, <<"TRANSFER: ">> \o desc,
                            transfer.fromAccount, 0 - round2(transfer.amount, 1),
                            round2(amount_after(loc.actual_amount, transfer), 1)))
          [] n = 6 -> W(insert_new_activity(db, transfer.date, <<"TRANSFER FEE">>,
                            transfer.fromAccount, 0 - round2(transfer.fee, 1),
                            round2(amount_with_fees(amount_after(loc.actual_amount, transfer),
                                                    transfer), 1)))
          [] n = 7 -> R([loc EXCEPT !.to_cash_account_id =
                            get_id_from_number(cash, transfer.toAccount)])
          [] n = 8 -> R([loc EXCEPT !.to_actual_amount =
                            get_from_account_actual_amount(cash, transfer.toAccount)])
          [] n = 9 -> W(update_credit_account(db, loc.to_cash_account_id,
                            round2(to_amount_total(loc.to_actual_amount, transfer), 1)))
          [] n = 10 -> W(insert_new_activity(db, transfer.date, <<"TRANSFER: $">> \o desc,
                            transfer.toAccount, round2(transfer.amount, 1),
                            round2(to_amount_total(loc.to_actual_amount, transfer), 1)))

\* variant: the source balance is read from the balance sink, as it stands now
Statement_readSink(k, db, cash, transfer, loc) ==
    IF k = 2
    THEN LET id == get_id_from_number(cash, transfer.fromAccount)
             rows == {i \in 1..Len(db.web_creditaccount) :
                          db.web_creditaccount[i].cashAccountId = id}
         IN  [db |-> db,
              loc |-> [loc EXCEPT !.actual_amount =
                          db.web_creditaccount[CHOOSE i \in rows : TRUE].availableBalance]]
    ELSE StatementEffect(StatementOrder[k], db, cash, transfer, loc)

\* the k-th statement createNewTransfer executes
Statement(k, db, cash, transfer, loc) ==
    StatementEffect(StatementOrder[k], db, cash, transfer, loc)

\* what a statement did, read off the database and the locals before and after it:
\* the operation, the table, and the side of the transfer it concerns
Effect(transfer, before, after) ==
    IF Len(after.db.web_transfer) > Len(before.db.web_transfer)
    THEN [op |-> "insert", table |-> "web_transfer", side |-> "ledger"]
    ELSE IF Len(after.db.updateCalls) > Len(before.db.updateCalls)
    THEN [op |-> "update", table |-> "web_creditaccount",
          side |-> IF after.db.updateCalls[Len(after.db.updateCalls)][1] = after.loc.cash_account_id
                   THEN "source" ELSE "destination"]
    ELSE IF Len(after.db.web_transaction) > Len(before.db.web_transaction)
    THEN [op |-> "insert", table |-> "web_transaction",
          side |-> IF after.db.web_transaction[Len(after.db.web_transaction)].number
                        = transfer.fromAccount
                   THEN "source" ELSE "destination"]
    ELSE [op |-> "select", table |-> "web_cashaccount",
          side |-> IF after.loc.to_cash_account_id # before.loc.to_cash_account_id
                      \/ after.loc.to_actual_amount # before.loc.to_actual_amount
                   THEN "destination" ELSE "source"]

\* a thread that is not inside createNewTransfer
Idle ==
    [pc |-> 0, transfer |-> Transfer, loc |-> NoLocals, log |-> <<>>, readAt |-> 0,
     at |-> "idle", slot |-> <<>>]

(***************************************************************************)
(* State                                                                   *)
(***************************************************************************)
VARIABLES
    web_cashaccount,    \* table read by the lookups
    web_transfer,       \* LedgerRecord rows
    web_transaction,    \* ActivityEntry rows
    web_creditaccount,  \* balance sink rows
    updateCalls,        \* update_credit_account calls that took effect, in order
    session,            \* session[s]: the "pendingTransfer" slot (NoPending if the key is absent)
    req,                \* the last request handled
    resp,               \* the response to it
    consumed,           \* consumed[s]: the proposal last stored in session s has been executed
    txn                 \* txn[w]: the createNewTransfer call request thread w is executing

vars == <<web_cashaccount, web_transfer, web_transaction, web_creditaccount, updateCalls,
          session, req, resp, consumed, txn>>

dbvars == <<web_transfer, web_transaction, web_creditaccount, updateCalls>>

\* "pendingTransfer" not in request.session
NoPending == <<>>

\* the tables as one database value
DB ==
    [web_transfer |-> web_transfer, web_transaction |-> web_transaction,
     web_creditaccount |-> web_creditaccount, updateCalls |-> updateCalls]

\* a POST body that carries no transfer fields
NoForm == [fromAccount |-> "", toAccount |-> "", description |-> <<>>, amount |-> 0, fee |-> 0]

\* a request: session, path ("get", "transfer", "confirm"), accountType cookie,
\* POST field action, POST transfer fields, and the "pendingTransfer" slot of
\* request.session as the request finds it
Request(s, path, account_type, action, form) ==
    [sid |-> s, path |-> path, cookie |-> account_type, action |-> action, form |-> form,
     pending |-> session[s]]

\* a response: the template rendered (or redirect / exception), the error flag of the
\* context, the statement at which createNewTransfer failed, and the cookie it sets
Response(kind, error, failStep) ==
    [kind |-> kind, error |-> error, failStep |-> failStep, setCookie |-> "absent"]

Init ==
    /\ web_cashaccount = InitCash
    /\ web_transfer = <<>>
    /\ web_transaction = <<>>
    /\ web_creditaccount = InitCredit
    /\ updateCalls = <<>>
    /\ session = [s \in AllSessions |-> NoPending]
    /\ req = Request("s1", "none", "absent", "", NoForm)
    /\ resp = Response("none", FALSE, 0)
    /\ consumed = [s \in AllSessions |-> FALSE]
    /\ txn = [w \in Workers |-> Idle]

(***************************************************************************)
(* TransferView                                                            *)
(***************************************************************************)
\* variant: the fee is computed from the amount as submitted, the amount rounded afterwards
Prepared_feeFirst(transfer, username) ==
    LET t1 == [transfer EXCEPT !.username = username, !.date = Today]
        t2 == [t1 EXCEPT !.fee = round2(t1.amount * t1.fee, 100000)]
    IN  [t2 EXCEPT !.amount = round2(t2.amount, 1)]

\* variant: the username the transfer arrived with is kept
Prepared_keepUser(transfer, username) ==
    LET t1 == [transfer EXCEPT !.date = Today]
        t2 == [t1 EXCEPT !.amount = round2(t1.amount, 1)]
    IN  [t2 EXCEPT !.fee = round2(t2.amount * t2.fee, 100000)]

\* the transfer as handed to createNewTransfer: username, date, rounded amount, resolved fee
Prepared(transfer, username) ==
    LET t1 == [transfer EXCEPT !.username = username, !.date = Today]
        t2 == [t1 EXCEPT !.amount = round2(t1.amount, 1)]
    IN  [t2 EXCEPT !.fee = round2(t2.amount * t2.fee, 100000)]

\* variant: the zero check is missing
IsZero_never(aux) == FALSE

\* variant: the check rejects every amount that is not positive
IsZero_nonPositive(aux) == aux <= 0

\* aux == 0.0
IsZero(aux) == aux = 0

\* TransferView.transfer_confirmation; cleared is the session as the caller left it
transfer_confirmation(s, transfer, via, cleared) ==
    IF IsZero(transfer.amount)
    THEN /\ resp' = Response("newTransfer", TRUE, 0)
         /\ session' = cleared
         /\ UNCHANGED <<dbvars, consumed>>
    ELSE IF transfer.amount = NoneNum
    THEN \* round(None, 2) raises TypeError before the service is called
         /\ resp' = Response("exception", FALSE, 0)
         /\ session' \in {cleared, session}
         /\ UNCHANGED <<dbvars, consumed>>
    ELSE /\ Len(web_transfer) < MaxTransfers
         /\ \E fault \in Faults :
              \E r \in {createNewTransfer(DB, web_cashaccount, Prepared(transfer, UserOf(s)), fault)} :
                  /\ web_transfer' = r.db.web_transfer
                  /\ web_transaction' = r.db.web_transaction
                  /\ web_creditaccount' = r.db.web_creditaccount
                  /\ updateCalls' = r.db.updateCalls
                  /\ IF r.ok
                     THEN /\ resp' = Response("transferConfirmation", FALSE, 0)
                          /\ session' = cleared
                          /\ consumed' = [consumed EXCEPT ![s] = @ \/ via = "confirm"]
                     ELSE \* the exception leaves the view: a server error response; whether the
                          \* in-request session change is saved is decided outside this code
                          /\ resp' = Response("exception", FALSE, r.failStep)
                          /\ session' \in {cleared, session}
                          /\ UNCHANGED consumed

\* variant: the amount is rounded and the fee resolved before the proposal is stored
transfer_check_resolved(s, transfer) ==
    /\ session' = [session EXCEPT ![s] =
                     as_dict([transfer EXCEPT
                                !.amount = round2(transfer.amount, 1),
                                !.fee = round2(round2(transfer.amount, 1) * transfer.fee, 100000)])]
    /\ consumed' = [consumed EXCEPT ![s] = FALSE]
    /\ resp' = Response("transferCheck", FALSE, 0)
    /\ UNCHANGED dbvars

\* variant: a proposal already pending is kept, the new one is dropped
transfer_check_keepFirst(s, transfer) ==
    /\ session' = IF session[s] = NoPending
                  THEN [session EXCEPT ![s] = as_dict(transfer)] ELSE session
    /\ consumed' = [consumed EXCEPT ![s] = FALSE]
    /\ resp' = Response("transferCheck", FALSE, 0)
    /\ UNCHANGED dbvars

\* TransferView.transfer_check
transfer_check(s, transfer) ==
    /\ session' = [session EXCEPT ![s] = as_dict(transfer)]
    /\ consumed' = [consumed EXCEPT ![s] = FALSE]
    /\ resp' = Response("transferCheck", FALSE, 0)
    /\ UNCHANGED dbvars

\* variant: rendering the form discards the pending proposal
Get_clears(s) ==
    /\ req' = Request(s, "get", "absent", "", NoForm)
    /\ resp' = [Response("newTransfer", FALSE, 0) EXCEPT !.setCookie = "Personal"]
    /\ session' = [session EXCEPT ![s] = NoPending]
    /\ UNCHANGED <<web_cashaccount, dbvars, consumed, txn>>

\* GET /transfer: render the form and set the accountType cookie
Get(s) ==
    /\ req' = Request(s, "get", "absent", "", NoForm)
    /\ resp' = [Response("newTransfer", FALSE, 0) EXCEPT !.setCookie = "Personal"]
    /\ UNCHANGED <<web_cashaccount, dbvars, session, consumed, txn>>

\* variant: every submit goes through the review step
PostTransfer_alwaysCheck(s, form, account_type) ==
    /\ req' = Request(s, "transfer", account_type, "", form)
    /\ transfer_check(s, TransferForm(form))
    /\ UNCHANGED <<web_cashaccount, txn>>

\* variant: the review step is skipped for the Personal classification as well
PostTransfer_neverCheck(s, form, account_type) ==
    /\ req' = Request(s, "transfer", account_type, "", form)
    /\ transfer_confirmation(s, TransferForm(form), "submit", session)
    /\ UNCHANGED <<web_cashaccount, txn>>

\* variant: only the Business classification skips the review step
PostTransfer_businessOnly(s, form, account_type) ==
    /\ req' = Request(s, "transfer", account_type, "", form)
    /\ IF account_type # "Business"
       THEN transfer_check(s, TransferForm(form))
       ELSE transfer_confirmation(s, TransferForm(form), "submit", session)
    /\ UNCHANGED <<web_cashaccount, txn>>

\* variant: a direct-path submit empties the pending slot
PostTransfer_directClears(s, form, account_type) ==
    /\ req' = Request(s, "transfer", account_type, "", form)
    /\ IF account_type = "Personal"
       THEN transfer_check(s, TransferForm(form))
       ELSE transfer_confirmation(s, TransferForm(form), "submit",
                                  [session EXCEPT ![s] = NoPending])
    /\ UNCHANGED <<web_cashaccount, txn>>

\* POST /transfer; account_type is request.COOKIES.get("accountType") as sent by the client
PostTransfer(s, form, account_type) ==
    LET transfer == TransferForm(form)
    IN  /\ req' = Request(s, "transfer", account_type, "", form)
        /\ IF account_type = "Personal"
           THEN transfer_check(s, transfer)
           ELSE transfer_confirmation(s, transfer, "submit", session)
        /\ UNCHANGED <<web_cashaccount, txn>>

\* variant: a pending proposal or action=confirm is enough to proceed
PostConfirm_either(s, action, account_type) ==
    /\ req' = Request(s, "confirm", account_type, action, NoForm)
    /\ IF session[s] # NoPending \/ action = "confirm"
       THEN transfer_confirmation(s, from_dict(Transfer, session[s]), "confirm",
                                  [session EXCEPT ![s] = NoPending])
       ELSE /\ resp' = Response("redirect", FALSE, 0)
            /\ UNCHANGED <<dbvars, session, consumed>>
    /\ UNCHANGED <<web_cashaccount, txn>>

\* variant: the pending proposal is not deleted from the session
PostConfirm_keep(s, action, account_type) ==
    /\ req' = Request(s, "confirm", account_type, action, NoForm)
    /\ IF session[s] # NoPending /\ action = "confirm"
       THEN transfer_confirmation(s, from_dict(Transfer, session[s]), "confirm", session)
       ELSE /\ resp' = Response("redirect", FALSE, 0)
            /\ UNCHANGED <<dbvars, session, consumed>>
    /\ UNCHANGED <<web_cashaccount, txn>>

\* variant: the pending proposal is looked up in one store shared by all sessions
PostConfirm_shared(s, action, account_type) ==
    /\ req' = Request(s, "confirm", account_type, action, NoForm)
    /\ IF (\E x \in AllSessions : session[x] # NoPending) /\ action = "confirm"
       THEN \E x \in {y \in AllSessions : session[y] # NoPending} :
               transfer_confirmation(s, from_dict(Transfer, session[x]), "confirm",
                                     [session EXCEPT ![x] = NoPending])
       ELSE /\ resp' = Response("redirect", FALSE, 0)
            /\ UNCHANGED <<dbvars, session, consumed>>
    /\ UNCHANGED <<web_cashaccount, txn>>

\* POST /transfer/confirm
PostConfirm(s, action, account_type) ==
    /\ req' = Request(s, "confirm", account_type, action, NoForm)
    /\ IF session[s] # NoPending /\ action = "confirm"
       THEN transfer_confirmation(s, from_dict(Transfer, session[s]), "confirm",
                                  [session EXCEPT ![s] = NoPending])
       ELSE /\ resp' = Response("redirect", FALSE, 0)
            /\ UNCHANGED <<dbvars, session, consumed>>
    /\ UNCHANGED <<web_cashaccount, txn>>

Next ==
    \/ \E s \in Sessions : Get(s)
    \/ \E s \in Sessions, form \in Forms, c \in CookieVals : PostTransfer(s, form, c)
    \/ \E s \in Sessions, action \in Actions, c \in CookieVals : PostConfirm(s, action, c)

Spec == Init /\ [][Next]_vars

(***************************************************************************)
(* The same three requests, sent from one session with edge inputs:        *)
(* amounts below one cent, a fee rate of zero, descriptions of 12 and 13   *)
(* characters, a source account number that matches no row.                *)
(***************************************************************************)
Desc12 == <<"S", "e", "s", "s", "i", "o", "n", " ", "T", "e", "s", "t">>
Desc13 == <<"F", "e", "e", " ", "C", "a", "l", "c", " ", "T", "e", "s", "t">>

EdgeForms ==
    { [fromAccount |-> "1111111111", toAccount |-> "2222222222", description |-> Desc12,
       amount |-> 200000, fee |-> 2500],
      [fromAccount |-> "1111111111", toAccount |-> "2222222222", description |-> Desc13,
       amount |-> 33330, fee |-> 2500],
      [fromAccount |-> "1111111111", toAccount |-> "2222222222", description |-> ShortDesc,
       amount |-> 100000, fee |-> 0],
      [fromAccount |-> "1111111111", toAccount |-> "2222222222", description |-> ShortDesc,
       amount |-> 16, fee |-> 30000],
      [fromAccount |-> "1111111111", toAccount |-> "2222222222", description |-> ShortDesc,
       amount |-> 4, fee |-> 20000],
      [fromAccount |-> "9999999999", toAccount |-> "2222222222", description |-> ShortDesc,
       amount |-> 100000, fee |-> 20000],
      [fromAccount |-> "1111111111", toAccount |-> "8888888888", description |-> ShortDesc,
       amount |-> 100000, fee |-> 20000] }

NextEdge ==
    \/ Get("s1")
    \/ \E form \in EdgeForms, c \in CookieVals : PostTransfer("s1", form, c)
    \/ \E action \in Actions, c \in CookieVals : PostConfirm("s1", action, c)

SpecEdge == Init /\ [][NextEdge]_vars

(***************************************************************************)
(* The same three requests, sent from two sessions of one user (two        *)
(* clients logged in as user1), each submitting one of two proposals.      *)
(***************************************************************************)
TwinForms ==
    { [fromAccount |-> "1111111111", toAccount |-> "2222222222", description |-> ShortDesc,
       amount |-> 100000, fee |-> 20000],
      [fromAccount |-> "2222222222", toAccount |-> "1111111111", description |-> LongDesc,
       amount |-> 600000, fee |-> 2000] }

NextTwin ==
    \/ \E s \in TwinSessions : Get(s)
    \/ \E s \in TwinSessions, form \in TwinForms, c \in CookieVals : PostTransfer(s, form, c)
    \/ \E s \in TwinSessions, action \in Actions, c \in CookieVals : PostConfirm(s, action, c)

SpecTwin == Init /\ [][NextTwin]_vars

(***************************************************************************)
(* The same three requests of one session, with amounts of every kind:     *)
(* above the source balance, negative, zero, absent, and a transfer whose  *)
(* source and destination are one account.                                 *)
(***************************************************************************)
AmountForms ==
    { [fromAccount |-> "1111111111", toAccount |-> "2222222222", description |-> ShortDesc,
       amount |-> 1500000, fee |-> 1000],
      [fromAccount |-> "1111111111", toAccount |-> "2222222222", description |-> ShortDesc,
       amount |-> -50000, fee |-> 2500],
      [fromAccount |-> "1111111111", toAccount |-> "2222222222", description |-> ShortDesc,
       amount |-> 0, fee |-> 20000],
      [fromAccount |-> "1111111111", toAccount |-> "2222222222", description |-> ShortDesc,
       amount |-> NoneNum, fee |-> DefaultFee],
      [fromAccount |-> "1111111111", toAccount |-> "1111111111", description |-> ShortDesc,
       amount |-> 100000, fee |-> 20000] }

NextAmounts ==
    \/ Get("s1")
    \/ \E form \in AmountForms, c \in CookieVals : PostTransfer("s1", form, c)
    \/ \E action \in Actions, c \in CookieVals : PostConfirm("s1", action, c)

SpecAmounts == Init /\ [][NextAmounts]_vars

(***************************************************************************)
(* Two request threads inside createNewTransfer at the same time.  Each    *)
(* statement is one step; the rows a thread updated in web_creditaccount   *)
(* stay locked by the database until its transaction commits.  The proposals *)
(* executed resolve both accounts, so no call raises.                      *)
(***************************************************************************)
\* proposals executed concurrently: the same source and destination, different amounts
RaceForms ==
    { [fromAccount |-> "1111111111", toAccount |-> "2222222222", description |-> ShortDesc,
       amount |-> 100000, fee |-> 20000],
      [fromAccount |-> "1111111111", toAccount |-> "2222222222", description |-> LongDesc,
       amount |-> 200000, fee |-> 2500] }

\* thread w is inside the transaction of createNewTransfer
InFlight(w) == txn[w].pc \in 1..(NumStatements + 1)

\* the open transaction of thread v holds the row lock of cashAccountId
Holds(v, cashAccountId) ==
    /\ InFlight(v)
    /\ \E i \in 1..Len(txn[v].log) :
         /\ txn[v].log[i].op = "update"
         /\ cashAccountId = IF txn[v].log[i].side = "source"
                            THEN txn[v].loc.cash_account_id
                            ELSE txn[v].loc.to_cash_account_id

\* transfer_confirmation up to the call: thread w enters createNewTransfer
RaceBegin(w, form) ==
    /\ txn[w].pc = 0
    /\ ~IsZero(TransferForm(form).amount)
    /\ txn' = [txn EXCEPT ![w] =
                 [Idle EXCEPT !.pc = 1,
                              !.transfer = Prepared(TransferForm(form), UserOf(SessionOf(w)))]]
    /\ UNCHANGED <<web_cashaccount, dbvars, session, req, resp, consumed>>

\* thread w executes its next statement
RaceStep(w) ==
    /\ txn[w].pc \in 1..NumStatements
    /\ LET before == [db |-> DB, loc |-> txn[w].loc]
           after == Statement(txn[w].pc, DB, web_cashaccount, txn[w].transfer, txn[w].loc)
           eff == Effect(txn[w].transfer, before, after)
       IN  /\ eff.op = "update"
                => \A v \in Workers \ {w} :
                     ~Holds(v, after.db.updateCalls[Len(after.db.updateCalls)][1])
           /\ web_transfer' = after.db.web_transfer
           /\ web_transaction' = after.db.web_transaction
           /\ web_creditaccount' = after.db.web_creditaccount
           /\ updateCalls' = after.db.updateCalls
           /\ txn' = [txn EXCEPT ![w] =
                        [@ EXCEPT !.pc = @ + 1, !.loc = after.loc, !.log = Append(@, eff),
                                  !.readAt = IF after.loc.actual_amount # before.loc.actual_amount
                                             THEN Len(updateCalls) ELSE @]]
    /\ UNCHANGED <<web_cashaccount, session, req, resp, consumed>>

\* the transaction of thread w commits and createNewTransfer returns
RaceCommit(w) ==
    /\ txn[w].pc = NumStatements + 1
    /\ txn' = [txn EXCEPT ![w].pc = NumStatements + 2]
    /\ UNCHANGED <<web_cashaccount, dbvars, session, req, resp, consumed>>

NextRace ==
    \/ \E w \in Workers, form \in RaceForms : RaceBegin(w, form)
    \/ \E w \in Workers : RaceStep(w)
    \/ \E w \in Workers : RaceCommit(w)

SpecRace == Init /\ [][NextRace]_vars

(***************************************************************************)
(* POST /transfer/confirm with action=confirm, request by request as the   *)
(* session engine runs it: the session data is loaded into the request on  *)
(* first access, the view works on that copy, and the copy is written back *)
(* with the response.  Two threads serve requests of the one session "s1"; *)
(* review-path submits of that session put proposals into the slot.        *)
(***************************************************************************)
\* a review-path submit of session "s1", handled whole
ConfirmSubmit(form) == PostTransfer("s1", form, "Personal")

\* "pendingTransfer" in request.session: the first access loads the session data
ConfirmLoad(w) ==
    /\ txn[w].at = "idle"
    /\ txn' = [txn EXCEPT ![w] = [Idle EXCEPT !.at = "loaded", !.slot = session["s1"]]]
    /\ UNCHANGED <<web_cashaccount, dbvars, session, req, resp, consumed>>

\* the view on its copy of the session: from_dict, del, transfer_confirmation
ConfirmRun(w) ==
    /\ txn[w].at = "loaded"
    /\ req' = [Request("s1", "confirm", "Personal", "confirm", NoForm)
                 EXCEPT !.pending = txn[w].slot]
    /\ IF txn[w].slot # NoPending
       THEN /\ transfer_confirmation("s1", from_dict(Transfer, txn[w].slot), "confirm", session)
            /\ txn' = [txn EXCEPT ![w] =
                         IF resp'.kind = "exception" THEN Idle
                         ELSE [@ EXCEPT !.at = "save", !.slot = NoPending]]
       ELSE /\ resp' = Response("redirect", FALSE, 0)
            /\ txn' = [txn EXCEPT ![w] = Idle]
            /\ UNCHANGED <<dbvars, session, consumed>>
    /\ UNCHANGED web_cashaccount

\* the modified copy of the session is written back with the response
ConfirmSave(w) ==
    /\ txn[w].at = "save"
    /\ session' = [session EXCEPT !["s1"] = txn[w].slot]
    /\ txn' = [txn EXCEPT ![w] = Idle]
    /\ UNCHANGED <<web_cashaccount, dbvars, req, resp, consumed>>

NextConfirm ==
    \/ \E form \in TwinForms : ConfirmSubmit(form)
    \/ \E w \in Workers : ConfirmLoad(w)
    \/ \E w \in Workers : ConfirmRun(w)
    \/ \E w \in Workers : ConfirmSave(w)

SpecConfirm == Init /\ [][NextConfirm]_vars

(***************************************************************************)
(* Properties.  In a step, req' is the request handled by the step and     *)
(* resp' the response to it; unprimed variables are the state before it.   *)
(***************************************************************************)
\* the proposal a confirm in session s would reconstruct
Pending(s) == from_dict(Transfer, session[s])

\* the step handles a POST /transfer
IsSubmit == req'.path = "transfer"

\* the step handles a POST /transfer/confirm
IsConfirm == req'.path = "confirm"

\* C1: single-use pending proposal.  Once the proposal stored in a session has been
\* executed by a confirm it is no longer in the session, and a POST /transfer/confirm
\* with action=confirm that follows a successful confirm with no review-path submit in
\* between finds no proposal, redirects and leaves every table unchanged.
C1_SingleUse ==
    [][ /\ \A s \in Sessions : consumed'[s] => session'[s] = NoPending
        /\ (IsConfirm /\ req'.action = "confirm" /\ consumed[req'.sid])
              => (resp'.kind = "redirect" /\ UNCHANGED dbvars) ]_vars

\* a confirm has executed a proposal and a later confirm of that session was redirected
C1_Witness ==
    /\ req.path = "confirm" /\ req.action = "confirm"
    /\ consumed[req.sid] /\ session[req.sid] = NoPending
    /\ resp.kind = "redirect"
    /\ Len(web_transfer) = 1

\* C2: zero-amount guard.  A transfer whose amount is 0 is never executed, for every
\* cookie value and on both paths: the direct submit and the confirm of a stored
\* zero-amount proposal re-show the form with the error flag and write no table; the
\* review-path submit writes no table either.
C2_ZeroNeverExecutes ==
    [][ /\ (IsSubmit /\ req'.form.amount = 0)
              => /\ UNCHANGED dbvars
                 /\ req'.cookie # "Personal" => (resp'.kind = "newTransfer" /\ resp'.error)
        /\ (IsConfirm /\ req'.action = "confirm" /\ session[req'.sid] # NoPending
                /\ Pending(req'.sid).amount = 0)
              => (UNCHANGED dbvars /\ resp'.kind = "newTransfer" /\ resp'.error) ]_vars

\* a stored zero-amount proposal was confirmed and rejected with the error form
C2_Witness ==
    /\ req.path = "confirm" /\ req.action = "confirm"
    /\ resp.kind = "newTransfer" /\ resp.error
    /\ web_transfer = <<>>

\* C3 (as stated): a POST /transfer whose amount is 0 never stores a pending proposal,
\* whatever the cookie is: the session's pending slot is the same after it as before.
C3_Original ==
    [][ (IsSubmit /\ req'.form.amount = 0) => session' = session ]_vars

\* C3 (amended): a zero-amount POST /transfer leaves the pending slot unchanged when the
\* cookie is not Personal; with the cookie Personal the zero-amount proposal is stored in
\* the slot like any other.  No table is written in either case.
C3_ZeroSubmitSlot ==
    [][ (IsSubmit /\ req'.form.amount = 0)
            => /\ req'.cookie # "Personal" => session' = session
               /\ req'.cookie = "Personal" =>
                    session' = [session EXCEPT ![req'.sid] = as_dict(TransferForm(req'.form))]
               /\ UNCHANGED dbvars ]_vars

\* a zero-amount proposal is held in a session after a review-path submit
C3_Witness ==
    /\ req.path = "transfer" /\ req.form.amount = 0 /\ req.cookie = "Personal"
    /\ resp.kind = "transferCheck"
    /\ session[req.sid] # NoPending /\ Pending(req.sid).amount = 0

\* C4: the review step has no persisted side effects.  A POST /transfer with the cookie
\* Personal writes only the pending slot of its own session; the tables change only in a
\* step whose response is the transfer confirmation.
C4_ReviewNoSideEffects ==
    [][ /\ (IsSubmit /\ req'.cookie = "Personal")
              => /\ UNCHANGED <<dbvars, web_cashaccount>>
                 /\ \A x \in Sessions \ {req'.sid} : session'[x] = session[x]
        /\ dbvars' # dbvars => resp'.kind = "transferConfirmation" ]_vars

\* a review-path submit was handled while records of an earlier transfer exist
C4_Witness ==
    /\ req.path = "transfer" /\ req.cookie = "Personal" /\ req.form.amount # 0
    /\ resp.kind = "transferCheck"
    /\ Len(web_transfer) = 1 /\ Len(web_transaction) = 3

\* C5: the path of a POST /transfer is chosen by the accountType cookie alone.  With
\* Personal, whatever the form and the session, the proposal is stored and nothing is
\* executed; with any other value, the absent cookie included, and a non-zero amount,
\* createNewTransfer is invoked in that same request and the pending slot is not used.
C5_ClassificationBypass ==
    [][ IsSubmit
            => /\ req'.cookie = "Personal"
                    => /\ resp'.kind = "transferCheck"
                       /\ session'[req'.sid] = as_dict(TransferForm(req'.form))
                       /\ UNCHANGED dbvars
               /\ (req'.cookie # "Personal" /\ req'.form.amount # 0)
                    => /\ resp'.kind \in {"transferConfirmation", "exception"}
                       /\ resp'.kind = "exception" => resp'.failStep > 0
                       /\ resp'.kind = "transferConfirmation"
                            => Len(web_transfer') = Len(web_transfer) + 1
                       /\ session' = session ]_vars

\* a submit without any cookie was executed directly; no session ever held a proposal
C5_Witness ==
    /\ req.path = "transfer" /\ req.cookie = "absent"
    /\ resp.kind = "transferConfirmation"
    /\ Len(web_transfer) = 1
    /\ \A s \in Sessions : session[s] = NoPending /\ ~consumed[s]

CashRow(number) ==
    CHOOSE r \in {web_cashaccount[i] : i \in 1..Len(web_cashaccount)} : r.number = number

\* C7: atomic execute.  A request in which createNewTransfer fails, at whatever
\* statement, leaves every table as it was; a step that changes a table adds exactly
\* one LedgerRecord, three ActivityEntry rows and two balance writes.
C7_AtomicExecute ==
    [][ /\ resp'.kind = "exception" => UNCHANGED dbvars
        /\ dbvars' # dbvars
              => /\ Len(web_transfer') = Len(web_transfer) + 1
                 /\ Len(web_transaction') = Len(web_transaction) + 3
                 /\ Len(updateCalls') = Len(updateCalls) + 2
                 /\ SubSeq(web_transfer', 1, Len(web_transfer)) = web_transfer
                 /\ SubSeq(web_transaction', 1, Len(web_transaction)) = web_transaction ]_vars

\* the destination balance write (statement 9) failed after an earlier transfer committed
C7_Witness ==
    /\ resp.kind = "exception" /\ resp.failStep = 9
    /\ Len(web_transfer) = 1 /\ Len(web_transaction) = 3 /\ Len(updateCalls) = 2

\* C8: in every reachable state the number of ActivityEntry rows is exactly 3 times the
\* number of LedgerRecord rows.
C8_ActivityRatio == Len(web_transaction) = 3 * Len(web_transfer)

\* after a committed transfer, an execute failed at its last insert
C8_Witness ==
    /\ Len(web_transfer) = 1 /\ Len(web_transaction) = 3
    /\ resp.kind = "exception" /\ resp.failStep = NumStatements

\* C9: each committed transfer, with source balance b_s, destination balance b_d, amount
\* a and fee f, made exactly two balance-update calls: (source id, round(b_s - a - f, 2))
\* and then (destination id, round(b_d + a, 2)); b_s = 1000, a = 100, f = 20, b_d = 500
\* give 880 and 600.
C9_SinkWrites ==
    /\ Len(updateCalls) = 2 * Len(web_transfer)
    /\ \A i \in 1..Len(web_transfer) :
         LET t == web_transfer[i]
             src == CashRow(t.fromAccount)
             dst == CashRow(t.toAccount)
         IN  /\ updateCalls[2 * i - 1] =
                    <<src.id, round2(src.availableBalance - t.amount - t.fee, 1)>>
             /\ updateCalls[2 * i] = <<dst.id, round2(dst.availableBalance + t.amount, 1)>>
             /\ (src.availableBalance = 1000000 /\ dst.availableBalance = 500000
                    /\ t.amount = 100000 /\ t.fee = 20000)
                  => (updateCalls[2 * i - 1][2] = 880000 /\ updateCalls[2 * i][2] = 600000)

\* the example transfer committed: the calls (1, 880.00) and (2, 600.00) were made
C9_Witness ==
    /\ Len(web_transfer) >= 1
    /\ web_transfer[1].amount = 100000 /\ web_transfer[1].fee = 20000
    /\ updateCalls[1] = <<1, 880000>> /\ updateCalls[2] = <<2, 600000>>

\* C10: each committed transfer appended three ActivityEntry rows in this order:
\* (source, -a, b_s - a), (source, TRANSFER FEE, -f, b_s - a - f), (destination, +a,
\* b_d + a); the snapshot of the second row is the value written to the source sink and
\* the snapshot of the third row the value written to the destination sink.
C10_ActivityRows ==
    /\ Len(web_transaction) = 3 * Len(web_transfer)
    /\ \A i \in 1..Len(web_transfer) :
         LET t == web_transfer[i]
             b_s == CashRow(t.fromAccount).availableBalance
             b_d == CashRow(t.toAccount).availableBalance
             r1 == web_transaction[3 * i - 2]
             r2 == web_transaction[3 * i - 1]
             r3 == web_transaction[3 * i]
         IN  /\ r1.number = t.fromAccount /\ r1.amount = 0 - t.amount
             /\ r1.availableBalance = round2(b_s - t.amount, 1)
             /\ r2.number = t.fromAccount /\ r2.description = <<"TRANSFER FEE">>
             /\ r2.amount = 0 - t.fee
             /\ r2.availableBalance = round2(b_s - t.amount - t.fee, 1)
             /\ r3.number = t.toAccount /\ r3.amount = t.amount
             /\ r3.availableBalance = round2(b_d + t.amount, 1)
             /\ r2.availableBalance = updateCalls[2 * i - 1][2]
             /\ r3.availableBalance = updateCalls[2 * i][2]

\* the transfer of 100.00 at 2.5% from the account holding 50.004 committed: its rows
\* carry the deltas -100.00, -2.50, +100.00 and the source snapshot -52.50
C10_Witness ==
    /\ Len(web_transaction) >= 3
    /\ web_transaction[1].number = "3333333333" /\ web_transaction[1].amount = -100000
    /\ web_transaction[2].amount = -2500 /\ web_transaction[2].availableBalance = -52500
    /\ web_transaction[3].number = "1111111111" /\ web_transaction[3].amount = 100000

\* the step ends with the transfer confirmation page: createNewTransfer returned
Executed == resp'.kind = "transferConfirmation"

\* the proposal the request of the step acts on: the form of a submit, the pending
\* proposal of a confirm
Proposal ==
    IF req'.path = "transfer" THEN TransferForm(req'.form) ELSE from_dict(Transfer, req'.pending)

\* the LedgerRecord the step inserted
Inserted == web_transfer'[Len(web_transfer')]

\* C11 (as stated): the fee of an executed transfer is round(amount * rate / 100, 2) for
\* the amount and the percentage as submitted.
C11_Original ==
    [][ Executed => Inserted.fee = round2(Proposal.amount * Proposal.fee, 100000) ]_vars

\* C11 (amended): the fee of an executed transfer is round(a * rate / 100, 2) where a is
\* the submitted amount rounded to 2 decimals and rate the submitted percentage; a rate
\* of zero gives a fee of zero, (200.00, 2.5) gives 5.00 and (33.33, 2.5) gives 0.83.
C11_FeeOfRoundedAmount ==
    [][ Executed
          => /\ Inserted.fee = round2(round2(Proposal.amount, 1) * Proposal.fee, 100000)
             /\ Proposal.fee = 0 => Inserted.fee = 0
             /\ (Proposal.amount = 200000 /\ Proposal.fee = 2500) => Inserted.fee = 5000
             /\ (Proposal.amount = 33330 /\ Proposal.fee = 2500) => Inserted.fee = 830 ]_vars

\* a transfer of 0.016 at 30% was executed with the fee 0.01 (of the rounded amount 0.02)
\* after a transfer at the rate zero was executed with the fee zero
C11_Witness ==
    /\ Len(web_transfer) = 2
    /\ web_transfer[1].amount = 100000 /\ web_transfer[1].fee = 0
    /\ web_transfer[2].amount = 20 /\ web_transfer[2].fee = 10
    /\ req.form.amount = 16 /\ req.form.fee = 30000 /\ resp.kind = "transferConfirmation"

\* C12: execute precondition.  On the direct path and on the confirm of a stored
\* proposal alike, the transfer createNewTransfer is invoked with (and records) has an
\* amount other than 0 and a fee that is the absolute amount obtained from the submitted
\* rate by one percentage-to-amount conversion.
C12_ExecutePrecondition ==
    [][ Executed
          => /\ Inserted.amount # 0
             /\ Inserted.fee = round2(Inserted.amount * Proposal.fee, 100000) ]_vars

\* the part of C12 about the fee alone: one conversion of the submitted rate, on both paths
C12_FeeResolvedOnce ==
    [][ Executed => Inserted.fee = round2(Inserted.amount * Proposal.fee, 100000) ]_vars

\* C13: description truncation.  The text after the prefix in the source and in the
\* destination transfer ActivityEntry rows of an executed proposal is the proposal's
\* description unchanged when it has at most 12 characters and exactly its first 12
\* characters when it has more; the LedgerRecord keeps the description in full.
C13_DescriptionTruncation ==
    [][ Executed
          => LET d == Proposal.description
                 n == Len(web_transaction')
                 used == IF Len(d) <= 12 THEN d ELSE [j \in 1..12 |-> d[j]]
             IN  /\ web_transaction'[n - 2].description = <<"TRANSFER: ">> \o used
                 /\ web_transaction'[n].description = <<"TRANSFER: $">> \o used
                 /\ Len(d) > 12 => Len(web_transaction'[n].description) = 13
                 /\ Inserted.description = d ]_vars

\* a proposal with a description of 13 characters was executed after one with 12: the
\* rows of the first carry all 12 characters, those of the second only the first 12
C13_Witness ==
    /\ Len(web_transfer) = 2 /\ Len(web_transaction) = 6
    /\ web_transfer[1].description = Desc12 /\ web_transfer[2].description = Desc13
    /\ web_transaction[1].description = <<"TRANSFER: ">> \o Desc12
    /\ web_transaction[4].description = <<"TRANSFER: ">> \o SubSeq(Desc13, 1, 12)
    /\ web_transaction[6].description = <<"TRANSFER: $">> \o SubSeq(Desc13, 1, 12)

\* the value stored under a key of a serialized proposal
Lookup(values, key) == values[CHOOSE i \in 1..Len(values) : values[i][1] = key][2]

\* the five fields a proposal is submitted with
FormFields == {"fromAccount", "toAccount", "description", "amount", "fee"}

\* C14: serialization round trip.  A review-path submit stores the submitted fromAccount,
\* toAccount, description, amount and fee; the proposal reconstructed from the slot has
\* the same five values; and the transfer a confirm executes is made of exactly the
\* values the slot held when the confirm arrived.
C14_RoundTrip ==
    [][ /\ (IsSubmit /\ resp'.kind = "transferCheck")
              => \A f \in FormFields :
                    /\ Lookup(session'[req'.sid], f) = req'.form[f]
                    /\ from_dict(Transfer, session'[req'.sid])[f] = req'.form[f]
        /\ (IsConfirm /\ Executed)
              => /\ Inserted.fromAccount = Lookup(req'.pending, "fromAccount")
                 /\ Inserted.toAccount = Lookup(req'.pending, "toAccount")
                 /\ Inserted.description = Lookup(req'.pending, "description")
                 /\ Inserted.amount = round2(Lookup(req'.pending, "amount"), 1)
                 /\ Inserted.fee = round2(Inserted.amount * Lookup(req'.pending, "fee"), 100000)
      ]_vars

\* the proposal of 100.004 at 2.5% with the long description was stored, and a confirm
\* executed it with these values
C14_Witness ==
    /\ req.path = "confirm" /\ resp.kind = "transferConfirmation"
    /\ Lookup(req.pending, "amount") = 100004 /\ Lookup(req.pending, "fee") = 2500
    /\ Lookup(req.pending, "description") = LongDesc
    /\ web_transfer = << [fromAccount |-> "3333333333", toAccount |-> "1111111111",
                          description |-> LongDesc, amount |-> 100000, fee |-> 2500,
                          username |-> UserOf(req.sid), date |-> Today] >>

\* C15: session isolation of pending proposals.  A request changes the pending slot of
\* no session but its own; a confirm executes only what the slot of its own session
\* holds, and with an empty slot of its own it is redirected and executes nothing,
\* whatever another session of the same user holds.
C15_SessionIsolation ==
    [][ /\ \A x \in AllSessions \ {req'.sid} :
              session'[x] = session[x] /\ consumed'[x] = consumed[x]
        /\ (IsConfirm /\ resp'.kind # "redirect")
              => session[req'.sid] # NoPending
        /\ (IsConfirm /\ Executed)
              => /\ Inserted.fromAccount = Lookup(session[req'.sid], "fromAccount")
                 /\ Inserted.toAccount = Lookup(session[req'.sid], "toAccount")
                 /\ Inserted.amount = round2(Lookup(session[req'.sid], "amount"), 1)
                 /\ session'[req'.sid] = NoPending ]_vars

\* both sessions of user1 held a proposal; the confirm of s3 executed the proposal of s3
\* and the proposal of s1 is still pending in s1
C15_Witness ==
    /\ req.sid = "s3" /\ req.path = "confirm" /\ resp.kind = "transferConfirmation"
    /\ UserOf("s1") = UserOf("s3")
    /\ session["s3"] = NoPending
    /\ session["s1"] # NoPending /\ Lookup(session["s1"], "fromAccount") = "1111111111"
    /\ Len(web_transfer) = 1 /\ web_transfer[1].fromAccount = "2222222222"

\* the request of the step reaches the call of createNewTransfer: a direct submit or a
\* confirm of a pending proposal, with an amount that passes the zero check
Executes ==
    /\ \/ IsSubmit /\ req'.cookie # "Personal"
       \/ IsConfirm /\ req'.action = "confirm" /\ req'.pending # NoPending
    /\ Proposal.amount # 0

\* C16: account resolution failure is not masked.  When the source or the destination
\* account number of the proposal matches no cash account, the request that calls
\* createNewTransfer ends with the error (never with the confirmation page), at the
\* source lookup or at the destination lookup unless the insert before it failed, and
\* no LedgerRecord, ActivityEntry or balance write of the call remains.
C16_ResolutionFailure ==
    [][ (Executes /\ (~Resolves(web_cashaccount, Proposal.fromAccount)
                        \/ ~Resolves(web_cashaccount, Proposal.toAccount)))
          => /\ resp'.kind = "exception"
             /\ resp'.failStep \in
                  {1, IF ~Resolves(web_cashaccount, Proposal.fromAccount) THEN 2 ELSE 7}
             /\ UNCHANGED dbvars ]_vars

\* after a committed transfer, the confirm of a pending proposal whose destination
\* matches no account failed at the destination lookup, the source side already written
\* inside the transaction, and nothing of it remains
C16_Witness ==
    /\ req.path = "confirm" /\ req.action = "confirm" /\ req.pending # NoPending
    /\ Lookup(req.pending, "toAccount") = "8888888888"
    /\ resp.kind = "exception" /\ resp.failStep = 7
    /\ Len(web_transfer) = 1 /\ Len(web_transaction) = 3 /\ Len(updateCalls) = 2

\* createNewTransfer of thread w has returned
Done(w) == txn[w].pc = NumStatements + 2

\* the balance web_creditaccount holds for a cash account
SinkOf(cashAccountId) ==
    web_creditaccount[CHOOSE i \in 1..Len(web_creditaccount) :
                          web_creditaccount[i].cashAccountId = cashAccountId].availableBalance

\* C17: lost update.  Balance read and balance write are separate statements with no
\* lock around them: whenever two executes against the same source account have both
\* returned, both have read the same starting balance b, two LedgerRecords and six
\* ActivityEntry rows exist, and the source balance sink is b minus the amount and fee
\* of one call only.
C17_LostUpdate ==
    (Done("w1") /\ Done("w2") /\ txn["w1"].transfer.fromAccount = txn["w2"].transfer.fromAccount)
        => LET b == CashRow(txn["w1"].transfer.fromAccount).availableBalance
               id == CashRow(txn["w1"].transfer.fromAccount).id
           IN  /\ \A w \in Workers : txn[w].loc.actual_amount = b
               /\ Len(web_transfer) = 2 /\ Len(web_transaction) = 6
               /\ \E w \in Workers :
                     SinkOf(id) = round2(b - (txn[w].transfer.amount + txn[w].transfer.fee), 1)
               /\ SinkOf(id) # round2(b - (txn["w1"].transfer.amount + txn["w1"].transfer.fee)
                                        - (txn["w2"].transfer.amount + txn["w2"].transfer.fee), 1)

\* two executes from account 1111111111, of 100.00 + 20.00 and of 200.00 + 5.00, both
\* read the balance 1000.00 before either wrote; both returned and the sink holds 880.00
C17_Witness ==
    /\ Done("w1") /\ Done("w2")
    /\ txn["w1"].readAt = 0 /\ txn["w2"].readAt = 0
    /\ txn["w1"].loc.actual_amount = 1000000 /\ txn["w2"].loc.actual_amount = 1000000
    /\ txn["w1"].transfer.amount = 100000 /\ txn["w2"].transfer.amount = 200000
    /\ SinkOf(1) = 880000
    /\ Len(web_transfer) = 2 /\ Len(web_transaction) = 6

\* the positions in the log of thread w of the statements of one kind
LogAt(w, op, table, side) ==
    {i \in 1..Len(txn[w].log) :
        txn[w].log[i] = [op |-> op, table |-> table, side |-> side]}

\* C18: fixed step order within one execute.  In every state of every call the statements
\* executed so far are: the LedgerRecord insert first; then the source balance read and
\* written and the two source ActivityEntry rows appended; and only after all of these
\* any read, write or ActivityEntry of the destination account.
C18_StepOrder ==
    \A w \in Workers :
        LET L == txn[w].log
            dest == {i \in 1..Len(L) : L[i].side = "destination"}
        IN  /\ Len(L) >= 1 => L[1] = [op |-> "insert", table |-> "web_transfer", side |-> "ledger"]
            /\ Cardinality(LogAt(w, "insert", "web_transfer", "ledger")) <= 1
            /\ \A i \in dest : \A j \in 1..Len(L) : L[j].side # "destination" => j < i
            /\ dest # {}
                 => /\ Cardinality(LogAt(w, "update", "web_creditaccount", "source")) = 1
                    /\ Cardinality(LogAt(w, "insert", "web_transaction", "source")) = 2
                    /\ Cardinality(LogAt(w, "select", "web_cashaccount", "source")) = 2
            /\ \A i \in LogAt(w, "insert", "web_transaction", "source") :
                 \A j \in LogAt(w, "update", "web_creditaccount", "source") : j < i
            /\ \A i \in LogAt(w, "update", "web_creditaccount", "source") :
                 \E j \in LogAt(w, "select", "web_cashaccount", "source") : j < i
            /\ Done(w) => Cardinality(dest) = 4

\* a call has written the source balance and both source rows and has not yet touched the
\* destination, while the other call is between its ledger insert and its balance write
C18_Witness ==
    /\ txn["w1"].pc = 7 /\ Len(txn["w1"].log) = 6
    /\ txn["w1"].log[4] = [op |-> "update", table |-> "web_creditaccount", side |-> "source"]
    /\ \A i \in 1..6 : txn["w1"].log[i].side # "destination"
    /\ txn["w2"].pc = 4
    /\ Len(web_transfer) = 2 /\ Len(web_transaction) = 2 /\ Len(updateCalls) = 1

\* C19: overwrite on submit.  A review-path submit B replaces whatever proposal A the
\* session held: afterwards the slot holds the five values of B and nothing else.  Every
\* executed transfer is made of the form of its own request (direct path) or of the
\* proposal its session holds when the confirm arrives, so a following confirm executes
\* B, and A, held nowhere any more, is executed by no later request.
C19_OverwriteOnSubmit ==
    [][ /\ (IsSubmit /\ req'.cookie = "Personal")
              => /\ session'[req'.sid] = as_dict(TransferForm(req'.form))
                 /\ \A f \in FormFields : Lookup(session'[req'.sid], f) = req'.form[f]
                 /\ Len(session'[req'.sid]) = Len(FieldNames)
        /\ Executed
              => LET src == IF IsSubmit THEN as_dict(TransferForm(req'.form))
                            ELSE session[req'.sid]
                 IN  /\ src # NoPending
                     /\ Inserted.fromAccount = Lookup(src, "fromAccount")
                     /\ Inserted.toAccount = Lookup(src, "toAccount")
                     /\ Inserted.description = Lookup(src, "description")
                     /\ Inserted.amount = round2(Lookup(src, "amount"), 1)
                     /\ Len(web_transfer') = Len(web_transfer) + 1 ]_vars

\* a review-path submit of the proposal from account 3333333333 found the proposal from
\* account 1111111111 pending in its session and replaced it
C19_Witness ==
    /\ req.path = "transfer" /\ req.cookie = "Personal" /\ resp.kind = "transferCheck"
    /\ req.pending # NoPending /\ Lookup(req.pending, "fromAccount") = "1111111111"
    /\ Lookup(req.pending, "amount") = 100000
    /\ req.form.fromAccount = "3333333333"
    /\ Lookup(session[req.sid], "fromAccount") = "3333333333"
    /\ web_transfer = <<>>

\* s is an initial segment of t
IsPrefix(s, t) == Len(s) <= Len(t) /\ \A i \in 1..Len(s) : t[i] = s[i]

\* C20: append-only ledger.  Across every request the LedgerRecord rows and the
\* ActivityEntry rows already committed stay as they are, in place and unchanged; rows
\* are only added; a request that ends with the confirmation page adds exactly one
\* LedgerRecord, and any other request adds none.
C20_AppendOnly ==
    [][ /\ IsPrefix(web_transfer, web_transfer')
        /\ IsPrefix(web_transaction, web_transaction')
        /\ Len(web_transfer') = Len(web_transfer) + (IF Executed THEN 1 ELSE 0) ]_vars

\* a second transfer was executed: the first LedgerRecord and its three ActivityEntry
\* rows are still there, followed by the rows of the second
C20_Witness ==
    /\ resp.kind = "transferConfirmation"
    /\ Len(web_transfer) = 2 /\ Len(web_transaction) = 6
    /\ web_transfer[1].fromAccount = "1111111111" /\ web_transfer[2].fromAccount = "3333333333"
    /\ web_transaction[1].number = "1111111111" /\ web_transaction[4].number = "3333333333"

\* the balance of an account number in the cash-account table as loaded
InitialBalance(number) ==
    InitCash[CHOOSE i \in 1..Len(InitCash) : InitCash[i].number = number].availableBalance

\* C21: the balance source is never written.  No request changes a row of the
\* cash-account table; an execute writes only credit-account rows, found by
\* cashAccountId; and so the value every execute writes for its source is computed from
\* the initial balance of the account, whatever earlier transfers wrote to the sink.
C21_BalanceSourceNeverWritten ==
    [][ /\ web_cashaccount' = InitCash
        /\ \A i \in 1..Len(web_creditaccount') :
              web_creditaccount'[i].cashAccountId = web_creditaccount[i].cashAccountId
        /\ Len(web_creditaccount') = Len(web_creditaccount)
        /\ Executed
              => LET n == Len(updateCalls')
                 IN  /\ updateCalls'[n - 1][2] =
                           round2(InitialBalance(Inserted.fromAccount)
                                    - Inserted.amount - Inserted.fee, 1)
                     /\ updateCalls'[n][2] =
                           round2(InitialBalance(Inserted.toAccount) + Inserted.amount, 1) ]_vars

\* the transfer of 100.00 + 20.00 from account 1111111111 was executed twice: both wrote
\* 880.00 to the sink of the account, and the cash-account table is as it was loaded
C21_Witness ==
    /\ Len(web_transfer) = 2
    /\ web_transfer[1].fromAccount = "1111111111" /\ web_transfer[2].fromAccount = "1111111111"
    /\ updateCalls[1] = <<1, 880000>> /\ updateCalls[3] = <<1, 880000>>
    /\ SinkOf(1) = 880000
    /\ web_cashaccount = InitCash

\* the step handles a review-path submit with an amount other than 0
IsReviewSubmit == IsSubmit /\ req'.cookie = "Personal" /\ req'.form.amount # 0

\* C22 (as stated): the proposal a review-path submit with non-zero amount puts into the
\* session carries the amount rounded to 2 decimals and the fee as the absolute amount
\* computed from amount and rate, not the percentage.
C22_Original ==
    [][ IsReviewSubmit
          => /\ Lookup(session'[req'.sid], "amount") = round2(req'.form.amount, 1)
             /\ Lookup(session'[req'.sid], "fee") =
                   round2(req'.form.amount * req'.form.fee, 100000) ]_vars

\* C22 (amended): the proposal a review-path submit with non-zero amount puts into the
\* session carries the amount as submitted, not rounded, and the fee as the submitted
\* percentage; the amount is rounded and the fee resolved to an absolute amount only
\* when a confirm executes the stored proposal.
C22_FeeResolvedAtConfirm ==
    [][ /\ IsReviewSubmit
              => /\ Lookup(session'[req'.sid], "amount") = req'.form.amount
                 /\ Lookup(session'[req'.sid], "fee") = req'.form.fee
                 /\ UNCHANGED dbvars
        /\ (IsConfirm /\ Executed)
              => /\ Inserted.amount = round2(Lookup(req'.pending, "amount"), 1)
                 /\ Inserted.fee =
                       round2(round2(Lookup(req'.pending, "amount"), 1)
                                * Lookup(req'.pending, "fee"), 100000) ]_vars

\* the session holds the amount 0.016 and the rate 30 as submitted, where the rounded
\* amount is 0.02 and the absolute fee 0.01
C22_Witness ==
    /\ req.path = "transfer" /\ req.cookie = "Personal" /\ resp.kind = "transferCheck"
    /\ req.form.amount = 16 /\ req.form.fee = 30000
    /\ Lookup(session[req.sid], "amount") = 16 /\ Lookup(session[req.sid], "fee") = 30000

\* the step handles a request that reaches transfer_confirmation: a direct-path submit, or
\* a confirm with action=confirm that found a proposal; Reached is the transfer it reached with
ReachesConfirmation ==
    \/ IsSubmit /\ req'.cookie # "Personal"
    \/ IsConfirm /\ req'.action = "confirm" /\ req'.pending # NoPending

Reached == IF IsSubmit THEN TransferForm(req'.form) ELSE from_dict(Transfer, req'.pending)

\* C23 (as stated): a submit, or a confirm of a stored proposal, whose amount is absent is
\* answered like amount 0: the form with the error flag, nothing stored in the session,
\* nothing written to the database, no exception.
C23_MissingAmountRejected ==
    [][ /\ (IsSubmit /\ req'.form.amount = NoneNum)
              => /\ resp'.kind = "newTransfer" /\ resp'.error
                 /\ session' = session
                 /\ UNCHANGED dbvars
        /\ (ReachesConfirmation /\ Reached.amount = NoneNum)
              => /\ resp'.kind = "newTransfer" /\ resp'.error
                 /\ UNCHANGED dbvars ]_vars

C30_SelfTransfer ==
    [][ (Executed /\ Inserted.fromAccount = Inserted.toAccount)
          => LET b == InitialBalance(Inserted.fromAccount)
                 a == Inserted.amount
                 f == Inserted.fee
                 id == get_id_from_number(web_cashaccount, Inserted.fromAccount)
                 n == Len(updateCalls')
                 m == Len(web_transaction')
             IN  /\ updateCalls'[n - 1] = <<id, round2(b - a - f, 1)>>
                 /\ updateCalls'[n] = <<id, round2(b + a, 1)>>
                 /\ \A i \in 1..Len(web_creditaccount') :
                       web_creditaccount'[i].cashAccountId = id
                          => web_creditaccount'[i].availableBalance = round2(b + a, 1)
                 /\ \A k \in 0..2 : web_transaction'[m - k].number = Inserted.fromAccount
                 /\ web_transaction'[m - 2].availableBalance = round2(b - a, 1)
                 /\ web_transaction'[m - 1].availableBalance = round2(b - a - f, 1)
                 /\ web_transaction'[m].availableBalance = round2(b + a, 1) ]_vars

\* 100.00 at 20 percent from account 1111111111 (balance 1000.00) to itself: the sink was
\* written to 880.00 and then to 1100.00, where it stays
C30_Witness ==
    /\ Len(web_transfer) = 1
    /\ web_transfer[1].fromAccount = "1111111111" /\ web_transfer[1].toAccount = "1111111111"
    /\ updateCalls = << <<1, 880000>>, <<1, 1100000>> >>
    /\ SinkOf(1) = 1100000
    /\ web_transaction[1].availableBalance = 900000
    /\ web_transaction[2].availableBalance = 880000
    /\ web_transaction[3].availableBalance = 1100000

ExecutedPending ==
    LET p == from_dict(Transfer, req'.pending)
    IN  /\ Inserted.fromAccount = p.fromAccount /\ Inserted.toAccount = p.toAccount
        /\ Inserted.description = p.description
        /\ Inserted.amount = round2(p.amount, 1)

\* C25: no expiry of a pending proposal.  The slot of a session changes only in a request
\* of that session that is a review-path submit or a confirm with action=confirm which
\* found a proposal; GET /transfer sets the accountType cookie to Personal and changes
\* neither the sessions nor the tables, a confirm with another action changes no session,
\* and a confirm that executes, however many requests later, executes the proposal as stored.
C25_NoExpiry ==
    [][ /\ \A x \in AllSessions :
              session'[x] # session[x]
                 => /\ x = req'.sid
                    /\ \/ IsSubmit /\ req'.cookie = "Personal"
                       \/ IsConfirm /\ req'.action = "confirm" /\ session[x] # NoPending
        /\ req'.path = "get"
              => resp'.setCookie = "Personal" /\ session' = session /\ UNCHANGED dbvars
        /\ (IsConfirm /\ req'.action # "confirm")
              => session' = session /\ UNCHANGED dbvars
        /\ (IsConfirm /\ Executed) => ExecutedPending ]_vars

\* a GET /transfer was served while the session held a proposal, which is still there
C25_Witness ==
    /\ req.path = "get" /\ resp.setCookie = "Personal"
    /\ req.pending # NoPending /\ session[req.sid] = req.pending
    /\ Len(web_transfer) = 1

\* C26: the username on every executed transfer is the authenticated principal of the
\* request that triggered the execution, the confirm on the review path and the submit on
\* the direct path; the form has no username field and the stored proposal carries none.
C26_UsernameOfExecutor ==
    [][ /\ Executed => Inserted.username = UserOf(req'.sid)
        /\ (Executed /\ IsConfirm) => Lookup(req'.pending, "username") # Inserted.username
        /\ \A s \in Sessions :
              session'[s] # NoPending => Lookup(session'[s], "username") = "" ]_vars

\* user2 confirmed, in their session, a transfer from an account of user1; the row is user2's
C26_Witness ==
    /\ req.path = "confirm" /\ req.sid = "s2" /\ resp.kind = "transferConfirmation"
    /\ web_transfer[Len(web_transfer)].username = "user2"
    /\ CashRow(web_transfer[Len(web_transfer)].fromAccount).username = "user1"

\* C28: a POST /transfer with a classification other than Personal leaves every session
\* slot as it was, whether it executes, is rejected or fails; and a confirm that executes
\* afterwards executes the proposal it found, not the transfer submitted directly.
C28_DirectSubmitKeepsSlot ==
    [][ /\ (IsSubmit /\ req'.cookie # "Personal")
              => /\ session' = session
                 /\ consumed' = consumed
                 /\ Executed => /\ Inserted.fromAccount = req'.form.fromAccount
                                /\ Inserted.description = req'.form.description
                                /\ Inserted.amount = round2(req'.form.amount, 1)
        /\ (IsConfirm /\ Executed) => ExecutedPending ]_vars

\* the session held the proposal of 200.00 while a direct submit executed 33.33; the
\* proposal of 200.00 is still pending
C28_Witness ==
    /\ req.path = "transfer" /\ req.cookie # "Personal" /\ resp.kind = "transferConfirmation"
    /\ req.pending # NoPending /\ session[req.sid] = req.pending
    /\ Lookup(session[req.sid], "amount") = 200000
    /\ web_transfer[Len(web_transfer)].amount = 33330

\* C29 (as stated): a confirm with action=confirm that finds a pending proposal removes
\* it from the session whatever follows: executed, rejected for zero amount or failed,
\* the proposal is not there for a later confirm.
C29_ConsumedBeforeExecute ==
    [][ (IsConfirm /\ req'.action = "confirm" /\ req'.pending # NoPending)
          => session'[req'.sid] = NoPending ]_vars

====
